---- MODULE Spec2Model ----
(***************************************************************************)
(* Liver segmentation / 3D reconstruction backend.                         *)
(*                                                                         *)
(* The module models ReconstructionService.reconstruct_from_masks          *)
(* (backend/app/services/reconstruction_service.py) as a state machine     *)
(* whose steps are the calls the method makes into the mesh library, and   *)
(* the metrics calculators of the reconstruction services as operators.    *)
(* Further sections model the DICOM series readers and segment_volume as   *)
(* operators applied to a series of files, the slice normalisation of the  *)
(* readers, the one shared service instance with its export directory and  *)
(* several callers, and the upload_zip_series handler with the directory   *)
(* ZIPProcessor.extract_zip makes for each request.                        *)
(*                                                                         *)
(* Numbers.  Scalars of the mask volume are kept in units of 1/Scale, so   *)
(* that v/255.0 and the thresholds 0.5 and 0.3 are exact integers.         *)
(* Spacings are whole millimetres, mesh volumes whole multiples of         *)
(* 1000 mm3 and mesh areas whole multiples of 100 mm2, so that the         *)
(* divisions by 1000.0 and 100.0 are exact.                                *)
(*                                                                         *)
(* The mesh library (pyvista) is not part of the repository.  A mesh is    *)
(* the record of what the code reads from it: n_points, n_cells, and the   *)
(* list of filters that produced it (ops), which tells two meshes apart.   *)
(* Whether an isosurface is empty is computed from the scalar field; the   *)
(* size of a non-empty mesh is drawn from FaceCounts.  Every library call  *)
(* the code guards with try/except may raise.                              *)
(***************************************************************************)
EXTENDS Integers, Sequences, FiniteSets, TLC

VARIABLES
    pc,            \* position of the request inside reconstruct_from_masks
    masks_3d,      \* argument masks_3d
    spacing,       \* argument spacing (x, y, z)
    threshold,     \* argument threshold, in units of 1/Scale
    volume,        \* local volume after astype/normalisation/transpose
    mesh,          \* local mesh
    ladder,        \* surface-extraction calls made so far, with their outcome
    stages,        \* post-processing stages run so far, with their outcome
    geometry,      \* what the mesh's computed properties return when read
    metrics,       \* local metrics
    saves,         \* the mesh.save calls _export_mesh made, with their outcome
    export_paths,  \* local export_paths
    result,        \* returned dictionary
    m_mesh,        \* metrics calculators: mesh argument
    m_spacing,     \* metrics calculators: spacing argument
    m_scale,       \* metrics calculators: the spacing axis scaled and the factor
    m_out,         \* metrics calculators: the returned dictionaries
    s_files,       \* series readers: the files of the series, as parsed
    s_read,        \* series readers: the reader called and what it returned
    s_seg,         \* segment_volume: the failing slices and what it returned
    n_slice,       \* slice normalisation: the pixels of the slice
    n_out,         \* slice normalisation: what each path made of them
    temp_dir,      \* shared service: the export directory and its files
    clients,       \* shared service: the callers of the one service instance
    upload,        \* upload_zip_series: the request being handled
    tmp_dirs       \* upload_zip_series: the extraction directories on disk

vars == <<pc, masks_3d, spacing, threshold, volume, mesh, ladder, stages,
          geometry, metrics, saves, export_paths, result,
          m_mesh, m_spacing, m_scale, m_out,
          s_files, s_read, s_seg, n_slice, n_out, temp_dir, clients,
          upload, tmp_dirs>>

pipeVars == <<pc, masks_3d, spacing, threshold, volume, mesh, ladder, stages,
              geometry, metrics, saves, export_paths, result>>

metricVars == <<m_mesh, m_spacing, m_scale, m_out>>

seriesVars == <<s_files, s_read, s_seg, n_slice, n_out>>

serviceVars == <<temp_dir, clients, upload, tmp_dirs>>

----------------------------------------------------------------------------
(* Bounds of the model *)

\* largest number of slices of an input mask volume
MaxDepth == 2

\* largest spacing, in mm, an axis of the metrics calculators' input takes
MaxSpacing == 2

\* largest factor one spacing axis is scaled by
MaxScale == 2

----------------------------------------------------------------------------
(* Program constants *)

\* volume / 255.0
GrayMax == 255

\* scalars are kept in units of 1/Scale
Scale == GrayMax * 10

\* threshold: float = 0.5
DefaultThreshold == Scale \div 2

\* grid.contour([0.3])
LowThreshold == (3 * Scale) \div 10

\* if mesh.n_cells > 100
SmoothMinFaces == 100

\* if mesh.n_cells > 50000
DecimateCeiling == 50000

\* reduction_ratio = 30000 / mesh.n_cells
DecimateTarget == 30000

\* if volume_ml > 5000
WarnVolumeMl == 5000

\* if volume_ml > 10000
MaxVolumeMl == 10000

\* volume_ml = volume_mm3 / 1000.0
Mm3PerMl == 1000

\* surface_area_cm2 = surface_area_mm2 / 100.0
Mm2PerCm2 == 100

----------------------------------------------------------------------------
(* Arrays *)

Range(f) == {f[x] : x \in DOMAIN f}

Max(S) == CHOOSE m \in S : \A x \in S : x <= m

\* the index tuples of an array of the given shape
Indices(shape) ==
    IF Len(shape) = 3
    THEN (1..shape[1]) \X (1..shape[2]) \X (1..shape[3])
    ELSE (1..shape[1]) \X (1..shape[2])

\* raw mask values: background, binary foreground, and two grey levels of an
\* 8-bit mask (0.2 and 0.4 after the division by 255)
RawValues == {0, 1, 51, 102}

\* mask volumes of shape (z, y, x) = (d, 1, 1)
Masks3D ==
    UNION {{[shape |-> <<d, 1, 1>>, data |-> f] :
               f \in [Indices(<<d, 1, 1>>) -> RawValues]} : d \in 1..MaxDepth}

\* arrays that are not three-dimensional
Masks2D ==
    {[shape |-> <<1, 2>>, data |-> f] : f \in [Indices(<<1, 2>>) -> {0, 1}]}

NoArray == [shape |-> <<>>, data |-> <<>>]

\* volume = masks_3d.astype(np.float32); if volume.max() > 1.0: volume / 255.0
Normalize(a) ==
    IF Max(Range(a.data)) * Scale > Scale
    THEN [a EXCEPT !.data = [p \in DOMAIN a.data |-> (a.data[p] * Scale) \div GrayMax]]
    ELSE [a EXCEPT !.data = [p \in DOMAIN a.data |-> a.data[p] * Scale]]

\* np.transpose(volume, (2, 1, 0))
Transpose(a) ==
    LET s == <<a.shape[3], a.shape[2], a.shape[1]>>
    IN  [shape |-> s,
         data  |-> [p \in Indices(s) |-> a.data[<<p[3], p[2], p[1]>>]]]

\* the volume the grid is built from (lines 44-54)
PrepareVolume(a) == Transpose(Normalize(a))

----------------------------------------------------------------------------
(* Meshes *)

\* face counts a non-empty mesh is drawn from
FaceCounts == {1, 50, 101, DecimateCeiling + 1, 90000}

EmptyMesh == [n_points |-> 0, n_cells |-> 0, ops |-> <<>>]

\* a non-empty mesh of nc faces produced by the call named op
MeshOf(nc, op) == [n_points |-> nc + 2, n_cells |-> nc, ops |-> <<op>>]

\* the grid edges the isosurface of value t crosses: axis-neighbours with
\* one end at or above t and the other below it
CrossedEdges(v, t) ==
    {e \in (DOMAIN v.data) \X (DOMAIN v.data) :
        /\ \E ax \in 1..3 :
              /\ e[2][ax] = e[1][ax] + 1
              /\ \A o \in (1..3) \ {ax} : e[2][o] = e[1][o]
        /\ (v.data[e[1]] >= t) # (v.data[e[2]] >= t)}

\* grid.contour([t]): empty exactly when the isosurface crosses no edge
Contour(v, t, nc) ==
    IF CrossedEdges(v, t) = {} THEN EmptyMesh ELSE MeshOf(nc, "contour")

\* data_values[data_values > 0]
NonzeroValues(v) == {p \in DOMAIN v.data : v.data[p] > 0}

\* the k-th smallest value of the scalars at the index set P
KthSmallest(v, P, k) ==
    CHOOSE x \in {v.data[p] : p \in P} :
        /\ Cardinality({p \in P : v.data[p] < x}) < k
        /\ Cardinality({p \in P : v.data[p] <= x}) >= k

\* np.percentile(nonzero_values, 50), linear interpolation
Median(v, P) ==
    LET n == Cardinality(P)
    IN  IF n % 2 = 1
        THEN KthSmallest(v, P, (n + 1) \div 2)
        ELSE (KthSmallest(v, P, n \div 2) + KthSmallest(v, P, n \div 2 + 1)) \div 2

\* np.argwhere(volume > threshold)
VoxelsAbove(v, t) == {p \in DOMAIN v.data : v.data[p] > t}

\* a grid of a single point has no extent
Degenerate(v) == Cardinality(DOMAIN v.data) < 2

----------------------------------------------------------------------------
(* reconstruct_from_masks: surface extraction *)

Thresholds == {0, DefaultThreshold}

Spacings == {<<1, 1, 1>>, <<1, 1, 2>>}

NoResult == [kind |-> "none"]

Failure(msg) == [kind |-> "result", success |-> FALSE, error |-> msg]

Step(name, level, m, raised) ==
    [step |-> name, level |-> level, n |-> m.n_points, raised |-> raised]

\* variant: an empty mesh sends the ladder back to the 0.3 retry
AfterLowRetry(v, m) == IF m.n_points = 0 THEN "low" ELSE "surface"

\* the position after the primary contour call (lines 84 and 89-93)
AfterLow(v, m) ==
    IF m.n_points = 0 /\ NonzeroValues(v) # {} THEN "adaptive" ELSE "surface"

\* variant: the 0.3 retry is made whatever the primary call produced
AfterPrimaryAlwaysLow(v, t, m) ==
    IF t > 0 THEN "low" ELSE AfterLow(v, m)

AfterPrimary(v, t, m) ==
    IF m.n_points = 0 /\ t > 0 THEN "low" ELSE AfterLow(v, m)

\* lines 34-75: the shape check and the preparation of the grid
Request(a, sp, t) ==
    /\ pc = "idle"
    /\ masks_3d' = a
    /\ spacing' = sp
    /\ threshold' = t
    /\ IF Len(a.shape) # 3
       THEN /\ result' = Failure("shape")
            /\ pc' = "done"
            /\ volume' = NoArray
       ELSE /\ volume' = PrepareVolume(a)
            /\ pc' = "primary"
            /\ result' = NoResult
    /\ UNCHANGED <<mesh, ladder, stages, geometry, metrics, saves, export_paths>>
    /\ UNCHANGED <<metricVars, seriesVars, serviceVars>>

\* variant: a contour call that raises is taken for one that found nothing
AfterRaiseNextStep(at) ==
    IF at = "primary" THEN "low" ELSE IF at = "low" THEN "adaptive" ELSE "surface"

\* line 98: the position after the contour call at position at raised
AfterRaise(at) == "except"

\* one contour call of the ladder, or the exception it raises
ContourCall(at, name, level, next(_)) ==
    /\ pc = at
    /\ \/ \E nc \in FaceCounts :
             LET m == Contour(volume, level, nc)
             IN  /\ mesh' = m
                 /\ ladder' = Append(ladder, Step(name, level, m, FALSE))
                 /\ pc' = next(m)
       \/ /\ ladder' = Append(ladder, Step(name, level, EmptyMesh, TRUE))
          /\ pc' = AfterRaise(at)
          /\ UNCHANGED mesh
    /\ UNCHANGED <<masks_3d, spacing, threshold, volume, stages, geometry,
                   metrics, saves, export_paths, result>>
    /\ UNCHANGED <<metricVars, seriesVars, serviceVars>>

\* line 82
ContourPrimary ==
    ContourCall("primary", "primary", threshold,
                LAMBDA m : AfterPrimary(volume, threshold, m))

\* line 86
ContourLow ==
    ContourCall("low", "low", LowThreshold, LAMBDA m : AfterLow(volume, m))

\* lines 94-95
ContourAdaptive ==
    ContourCall("adaptive", "adaptive", Median(volume, NonzeroValues(volume)),
                LAMBDA m : "surface")

\* lines 98-102: grid.extract_surface() after a contour call raised
ExtractSurface ==
    /\ pc = "except"
    /\ \/ \E nc \in FaceCounts :
             /\ mesh' = MeshOf(nc, "extract_surface")
             /\ ladder' = Append(ladder, Step("extract_surface", 0, mesh', FALSE))
             /\ pc' = "surface"
             /\ UNCHANGED result
       \/ /\ Degenerate(volume)
          /\ mesh' = EmptyMesh
          /\ ladder' = Append(ladder, Step("extract_surface", 0, mesh', FALSE))
          /\ pc' = "surface"
          /\ UNCHANGED result
       \/ /\ ladder' = Append(ladder, Step("extract_surface", 0, EmptyMesh, TRUE))
          /\ result' = Failure("extract_surface")
          /\ pc' = "done"
          /\ UNCHANGED mesh
    /\ UNCHANGED <<masks_3d, spacing, threshold, volume, stages, geometry,
                   metrics, saves, export_paths>>
    /\ UNCHANGED <<metricVars, seriesVars, serviceVars>>

\* lines 104-122: the point cloud of the voxels above the threshold
PointCloud ==
    /\ pc = "surface"
    /\ mesh.n_points = 0
    /\ IF VoxelsAbove(volume, threshold) # {}
       THEN \/ \E nc \in FaceCounts :
                  /\ mesh' = MeshOf(nc, "reconstruct_surface")
                  /\ ladder' = Append(ladder, Step("cloud", threshold, mesh', FALSE))
                  /\ pc' = "postprocess"
                  /\ UNCHANGED result
            \/ /\ mesh' = [EmptyMesh EXCEPT !.ops = <<"reconstruct_surface">>]
               /\ ladder' = Append(ladder, Step("cloud", threshold, mesh', FALSE))
               /\ pc' = "postprocess"
               /\ UNCHANGED result
            \/ /\ ladder' = Append(ladder, Step("cloud", threshold, EmptyMesh, TRUE))
               /\ result' = Failure("reconstruct_surface")
               /\ pc' = "done"
               /\ UNCHANGED mesh
       ELSE /\ result' = Failure("no data")
            /\ pc' = "done"
            /\ UNCHANGED <<mesh, ladder>>
    /\ UNCHANGED <<masks_3d, spacing, threshold, volume, stages, geometry,
                   metrics, saves, export_paths>>
    /\ UNCHANGED <<metricVars, seriesVars, serviceVars>>

\* line 104 when the ladder left a mesh with vertices
SurfaceFound ==
    /\ pc = "surface"
    /\ mesh.n_points # 0
    /\ pc' = "postprocess"
    /\ UNCHANGED <<masks_3d, spacing, threshold, volume, mesh, ladder, stages,
                   geometry, metrics, saves, export_paths, result>>
    /\ UNCHANGED <<metricVars, seriesVars, serviceVars>>

----------------------------------------------------------------------------
(* _postprocess_mesh *)

\* the mesh a filter returns: the same size, produced by one more filter
Apply(m, op) == [m EXCEPT !.ops = Append(@, op)]

\* a * b / c without an intermediate product
MulDiv(a, b, c) == (a \div c) * b + ((a % c) * b) \div c

\* mesh.decimate(r) removes the fraction r = num/den of the faces
Decimated(m, num, den) ==
    LET left == m.n_cells - MulDiv(m.n_cells, num, den)
    IN  [n_points |-> left + 2, n_cells |-> left, ops |-> Append(m.ops, "decimate")]

\* lines 210-213: reduction_ratio = 30000 / mesh.n_cells; mesh.decimate(ratio)
Decimate(m) == Decimated(m, DecimateTarget, m.n_cells)

\* variant: smoothing has no guard
StageGuardSmoothAlways(name, m) ==
    CASE name = "extract_largest" -> m.n_cells > 1
      [] name = "fill_holes"      -> TRUE
      [] name = "smooth"          -> TRUE
      [] name = "decimate"        -> m.n_cells > DecimateCeiling

StageGuard(name, m) ==
    CASE name = "extract_largest" -> m.n_cells > 1
      [] name = "fill_holes"      -> TRUE
      [] name = "smooth"          -> m.n_cells > SmoothMinFaces
      [] name = "decimate"        -> m.n_cells > DecimateCeiling

StageOutput(name, m) ==
    IF name = "decimate" THEN Decimate(m) ELSE Apply(m, name)

\* variant: the filter that raised has already replaced the mesh
StageFailedPartial(name, m) == Apply(m, name)

\* the mesh a stage leaves when its filter raises (the except branches)
StageFailed(name, m) == m

\* one stage of _postprocess_mesh: its guard, its filter, its except branch
Stage(at, name, next) ==
    /\ pc = at
    /\ pc' = next
    /\ IF StageGuard(name, mesh)
       THEN \/ /\ mesh' = StageOutput(name, mesh)
               /\ stages' = Append(stages, [stage |-> name, ok |-> TRUE,
                                            before |-> mesh, after |-> mesh'])
            \/ /\ mesh' = StageFailed(name, mesh)
               /\ stages' = Append(stages, [stage |-> name, ok |-> FALSE,
                                            before |-> mesh, after |-> mesh'])
       ELSE UNCHANGED <<mesh, stages>>
    /\ UNCHANGED <<masks_3d, spacing, threshold, volume, ladder, geometry,
                   metrics, saves, export_paths, result>>
    /\ UNCHANGED <<metricVars, seriesVars, serviceVars>>

\* the position after the zero-vertex check of _postprocess_mesh
PostprocessEntry(m) == IF m.n_points = 0 THEN "metrics" ELSE "largest"

\* lines 183-184
Postprocess ==
    /\ pc = "postprocess"
    /\ pc' = PostprocessEntry(mesh)
    /\ UNCHANGED <<masks_3d, spacing, threshold, volume, mesh, ladder, stages,
                   geometry, metrics, saves, export_paths, result>>
    /\ UNCHANGED <<metricVars, seriesVars, serviceVars>>

\* lines 187-192
ExtractLargest == Stage("largest", "extract_largest", "holes")

\* lines 195-199
FillHoles == Stage("holes", "fill_holes", "smooth")

\* lines 202-207
Smooth == Stage("smooth", "smooth", "decimate")

\* lines 210-216
DecimateStage == Stage("decimate", "decimate", "metrics")

----------------------------------------------------------------------------
(* _calculate_metrics *)

\* _get_empty_metrics
GetEmptyMetrics(sp) ==
    [volume_ml |-> 0, volume_mm3 |-> 0,
     surface_area_cm2 |-> 0, surface_area_mm2 |-> 0,
     center_of_mass |-> <<0, 0, 0>>,
     spacing_x |-> sp[1], spacing_y |-> sp[2], spacing_z |-> sp[3],
     bounding_box |-> [x |-> <<0, 0>>, y |-> <<0, 0>>, z |-> <<0, 0>>]]

\* the dictionary built at lines 257-271 (and 172-186 of simple_reconstruction)
MetricsRecord(g, sp, volume_mm3, volume_ml, area_mm2, area_cm2) ==
    [volume_ml |-> volume_ml, volume_mm3 |-> volume_mm3,
     surface_area_cm2 |-> area_cm2, surface_area_mm2 |-> area_mm2,
     center_of_mass |-> g.center,
     spacing_x |-> sp[1], spacing_y |-> sp[2], spacing_z |-> sp[3],
     bounding_box |-> [x |-> <<g.bounds[1], g.bounds[2]>>,
                       y |-> <<g.bounds[3], g.bounds[4]>>,
                       z |-> <<g.bounds[5], g.bounds[6]>>]]

\* variant: the volume is recomputed as soon as the warning ceiling is passed
PlausibleAtWarn(g, volume_mm3) ==
    IF volume_mm3 \div Mm3PerMl > WarnVolumeMl THEN g.volume ELSE volume_mm3

\* lines 241-248: the plausibility check on the computed volume
Plausible(g, volume_mm3) ==
    IF volume_mm3 \div Mm3PerMl > WarnVolumeMl
    THEN IF volume_mm3 \div Mm3PerMl > MaxVolumeMl
         THEN g.volume
         ELSE volume_mm3
    ELSE volume_mm3

\* variant: the slice spacing is left out of the voxel volume
CalculateMetricsNoZ(g, sp) ==
    IF g.n_points = 0 THEN GetEmptyMetrics(sp)
    ELSE IF g.raises THEN GetEmptyMetrics(sp)
    ELSE LET voxel_volume == sp[1] * sp[2]
             volume_mm3   == Plausible(g, g.volume * voxel_volume)
             area_mm2     == g.area * sp[1] * sp[2]
         IN  MetricsRecord(g, sp, volume_mm3, volume_mm3 \div Mm3PerMl,
                           area_mm2, area_mm2 \div Mm2PerCm2)

\* variant: no zero-vertex check before the mesh is measured
CalculateMetricsUnguarded(g, sp) ==
    IF g.raises THEN GetEmptyMetrics(sp)
    ELSE LET voxel_volume == sp[1] * sp[2] * sp[3]
             volume_mm3   == Plausible(g, g.volume * voxel_volume)
             area_mm2     == g.area * sp[1] * sp[2]
         IN  MetricsRecord(g, sp, volume_mm3, volume_mm3 \div Mm3PerMl,
                           area_mm2, area_mm2 \div Mm2PerCm2)

\* variant: the millilitres are not recomputed after the correction
CalculateMetricsStaleMl(g, sp) ==
    IF g.n_points = 0 THEN GetEmptyMetrics(sp)
    ELSE IF g.raises THEN GetEmptyMetrics(sp)
    ELSE LET voxel_volume == sp[1] * sp[2] * sp[3]
             volume_mm3   == Plausible(g, g.volume * voxel_volume)
             area_mm2     == g.area * sp[1] * sp[2]
         IN  MetricsRecord(g, sp, volume_mm3,
                           (g.volume * voxel_volume) \div Mm3PerMl,
                           area_mm2, area_mm2 \div Mm2PerCm2)

\* ReconstructionService._calculate_metrics; g is the mesh as the method
\* reads it: n_points, volume, area, center, bounds, and whether a read raises
CalculateMetrics(g, sp) ==
    IF g.n_points = 0 THEN GetEmptyMetrics(sp)
    ELSE IF g.raises THEN GetEmptyMetrics(sp)
    ELSE LET voxel_volume == sp[1] * sp[2] * sp[3]
             volume_mm3   == Plausible(g, g.volume * voxel_volume)
             area_mm2     == g.area * sp[1] * sp[2]
         IN  MetricsRecord(g, sp, volume_mm3, volume_mm3 \div Mm3PerMl,
                           area_mm2, area_mm2 \div Mm2PerCm2)

\* the empty dictionary
EmptyDict == [k \in {} |-> 0]

\* SimpleReconstructionService._calculate_metrics
SimpleCalculateMetrics(g, sp) ==
    IF g.n_points = 0
    THEN [volume_ml |-> 0, volume_mm3 |-> 0,
          surface_area_cm2 |-> 0, surface_area_mm2 |-> 0,
          center_of_mass |-> <<0, 0, 0>>,
          spacing_x |-> sp[1], spacing_y |-> sp[2], spacing_z |-> sp[3],
          bounding_box |-> [x |-> <<0, 0>>, y |-> <<0, 0>>, z |-> <<0, 0>>]]
    ELSE IF g.raises THEN EmptyDict
    ELSE LET voxel_volume == sp[1] * sp[2] * sp[3]
             volume_mm3   == g.volume * voxel_volume
             area_mm2     == g.area * sp[1] * sp[2]
         IN  MetricsRecord(g, sp, volume_mm3, volume_mm3 \div Mm3PerMl,
                           area_mm2, area_mm2 \div Mm2PerCm2)

\* geometric volumes (mm3 of the unscaled mesh) read in the pipeline
PipeVolumes == {4000000, 6000000, 12000000}

\* the properties of the mesh m as _calculate_metrics reads them
Geometry(m, vol, raises) ==
    IF m.n_points = 0
    THEN [n_points |-> 0, volume |-> 0, area |-> 0, center |-> <<0, 0, 0>>,
          bounds |-> <<1, -1, 1, -1, 1, -1>>, raises |-> raises]
    ELSE [n_points |-> m.n_points, volume |-> vol, area |-> 600,
          center |-> <<1, 1, 1>>, bounds |-> <<0, 2, 0, 2, 0, 2>>,
          raises |-> raises]

NoGeometry == Geometry(EmptyMesh, 0, FALSE)

\* line 130
Metrics ==
    /\ pc = "metrics"
    /\ \/ \E vol \in PipeVolumes : geometry' = Geometry(mesh, vol, FALSE)
       \/ geometry' = Geometry(mesh, 0, TRUE)
    /\ metrics' = CalculateMetrics(geometry', spacing)
    /\ pc' = "export"
    /\ UNCHANGED <<masks_3d, spacing, threshold, volume, mesh, ladder, stages,
                   saves, export_paths, result>>
    /\ UNCHANGED <<metricVars, seriesVars, serviceVars>>

----------------------------------------------------------------------------
(* _export_mesh and the returned dictionary *)

Formats == <<"stl", "ply">>

\* os.path.join(self.temp_dir, "model.<format>")
PathOf(format) == IF format = "stl" THEN "model.stl" ELSE "model.ply"

Save(format, ok) == [format |-> format, ok |-> ok]

\* the mesh.save calls made, given the set of formats whose save raises:
\* the first save that raises ends the try block
Saved(fails) ==
    IF "stl" \in fails THEN <<Save("stl", FALSE)>>
    ELSE IF "ply" \in fails THEN <<Save("stl", TRUE), Save("ply", FALSE)>>
    ELSE <<Save("stl", TRUE), Save("ply", TRUE)>>

\* _export_mesh: the dictionary it returns
ExportMesh(fails) ==
    IF "stl" \in fails \/ "ply" \in fails
    THEN EmptyDict
    ELSE [f \in {"stl", "ply"} |-> PathOf(f)]

\* lines 135-144
Success(m, mt, paths) ==
    [kind |-> "result", success |-> TRUE,
     mesh_info |-> [num_vertices |-> m.n_points, num_faces |-> m.n_cells],
     metrics |-> mt, export_paths |-> paths]

\* lines 133-144
Export ==
    /\ pc = "export"
    /\ \E fails \in SUBSET {"stl", "ply"} :
          /\ "stl" \in fails => fails = {"stl"}
          /\ saves' = Saved(fails)
          /\ export_paths' = ExportMesh(fails)
    /\ result' = Success(mesh, metrics, export_paths')
    /\ pc' = "done"
    /\ UNCHANGED <<masks_3d, spacing, threshold, volume, mesh, ladder, stages,
                   geometry, metrics>>
    /\ UNCHANGED <<metricVars, seriesVars, serviceVars>>

\* the service takes the next request
Finish ==
    /\ pc = "done"
    /\ pc' = "idle"
    /\ masks_3d' = NoArray
    /\ spacing' = <<1, 1, 1>>
    /\ threshold' = DefaultThreshold
    /\ volume' = NoArray
    /\ mesh' = EmptyMesh
    /\ ladder' = <<>>
    /\ stages' = <<>>
    /\ geometry' = NoGeometry
    /\ metrics' = EmptyDict
    /\ saves' = <<>>
    /\ export_paths' = EmptyDict
    /\ result' = NoResult
    /\ UNCHANGED <<metricVars, seriesVars, serviceVars>>

----------------------------------------------------------------------------
(* The service *)

PipeInit ==
    /\ pc = "idle"
    /\ masks_3d = NoArray
    /\ spacing = <<1, 1, 1>>
    /\ threshold = DefaultThreshold
    /\ volume = NoArray
    /\ mesh = EmptyMesh
    /\ ladder = <<>>
    /\ stages = <<>>
    /\ geometry = NoGeometry
    /\ metrics = EmptyDict
    /\ saves = <<>>
    /\ export_paths = EmptyDict
    /\ result = NoResult

\* no calculator called yet
NoOutput == [calls |-> {}, recon |-> EmptyDict, scaled |-> EmptyDict,
             simple |-> EmptyDict]

\* no series read
NoNorm == [image |-> <<>>, bytes |-> <<>>, zip |-> <<>>]

SeriesIdle ==
    /\ s_files = <<>>
    /\ s_read = NoResult
    /\ s_seg = NoResult
    /\ n_slice = <<>>
    /\ n_out = NoNorm

\* __init__ (lines 15-17): tempfile.mkdtemp made the export directory, which
\* is empty; no caller has used the instance
NoFiles == {}

NewTempDir == [exists |-> TRUE, created |-> 1, files |-> NoFiles]

\* request n of upload_zip_series before its first statement; temp_dir is
\* the local variable (0: None), made the directory extract_zip created
IdleUpload(n) ==
    [pc |-> "idle", n |-> n, temp_dir |-> 0, made |-> 0, status |-> 0,
     cleanup |-> "none"]

ServiceIdle ==
    /\ temp_dir = NewTempDir
    /\ clients = <<>>
    /\ upload = IdleUpload(1)
    /\ tmp_dirs = {}

\* no calculator applied
MetricsIdle ==
    /\ m_mesh = NoGeometry
    /\ m_spacing = <<1, 1, 1>>
    /\ m_scale = [axis |-> 1, k |-> 1]
    /\ m_out = NoOutput

Init ==
    /\ PipeInit
    /\ m_mesh = NoGeometry
    /\ m_spacing = <<1, 1, 1>>
    /\ m_scale = [axis |-> 1, k |-> 1]
    /\ m_out = NoOutput
    /\ SeriesIdle
    /\ ServiceIdle

Next ==
    \/ \E a \in Masks3D \cup Masks2D, sp \in Spacings, t \in Thresholds :
          Request(a, sp, t)
    \/ ContourPrimary
    \/ ContourLow
    \/ ContourAdaptive
    \/ ExtractSurface
    \/ PointCloud
    \/ SurfaceFound
    \/ Postprocess
    \/ ExtractLargest
    \/ FillHoles
    \/ Smooth
    \/ DecimateStage
    \/ Metrics
    \/ Export
    \/ Finish

Spec == Init /\ [][Next]_vars

----------------------------------------------------------------------------
(* The metrics calculators, applied to a mesh and a spacing *)

\* geometric volumes (mm3 of the unscaled mesh) the calculators are given
MetricVolumes == {1000, 5000000, 6000000, 10000000, 12000000, 20000000}

MetricInputs ==
    {Geometry(EmptyMesh, 0, r) : r \in BOOLEAN}
    \cup {Geometry(MeshOf(50, "contour"), v, r) : v \in MetricVolumes, r \in BOOLEAN}

MetricSpacings == (1..MaxSpacing) \X (1..MaxSpacing) \X (1..MaxSpacing)

\* the spacing sp with one axis multiplied by k
ScaleAxis(sp, axis, k) == [sp EXCEPT ![axis] = k * sp[axis]]

MetricsInit ==
    /\ PipeInit
    /\ m_mesh \in MetricInputs
    /\ m_spacing \in MetricSpacings
    /\ m_scale \in [axis : 1..3, k : 2..MaxScale]
    /\ m_out = NoOutput
    /\ SeriesIdle
    /\ ServiceIdle

\* ReconstructionService._calculate_metrics on the spacing and on the
\* spacing with one axis scaled
MetricsRecon ==
    /\ "recon" \notin m_out.calls
    /\ m_out' = [m_out EXCEPT
                   !.calls = @ \cup {"recon"},
                   !.recon = CalculateMetrics(m_mesh, m_spacing),
                   !.scaled = CalculateMetrics(
                       m_mesh, ScaleAxis(m_spacing, m_scale.axis, m_scale.k))]
    /\ UNCHANGED <<m_mesh, m_spacing, m_scale>>
    /\ UNCHANGED <<pipeVars, seriesVars, serviceVars>>

\* SimpleReconstructionService._calculate_metrics
MetricsSimple ==
    /\ "simple" \notin m_out.calls
    /\ m_out' = [m_out EXCEPT
                   !.calls = @ \cup {"simple"},
                   !.simple = SimpleCalculateMetrics(m_mesh, m_spacing)]
    /\ UNCHANGED <<m_mesh, m_spacing, m_scale>>
    /\ UNCHANGED <<pipeVars, seriesVars, serviceVars>>

MetricsNext == MetricsRecon \/ MetricsSimple

MetricsSpec == MetricsInit /\ [][MetricsNext]_vars

----------------------------------------------------------------------------
(* Reconstruction3D._postprocess_mesh (reconstruction3D/__init__.py),      *)
(* applied to a mesh: its stages are not guarded by try/except, so a       *)
(* filter that raises ends the method.                                     *)

\* meshes the post-processor is given
PostMeshes ==
    {EmptyMesh}
    \cup {MeshOf(nc, op) : nc \in FaceCounts,
                           op \in {"contour", "extract_surface", "reconstruct_surface"}}

\* the guards of lines 68, 72, 75 and 78
R3DGuard(name, m) ==
    CASE name = "extract_largest" -> m.n_cells > 1
      [] name = "fill_holes"      -> TRUE
      [] name = "smooth"          -> TRUE
      [] name = "decimate"        -> m.n_cells > DecimateCeiling

\* line 79: mesh.decimate(0.5)
R3DOutput(name, m) ==
    IF name = "decimate" THEN Decimated(m, 1, 2) ELSE Apply(m, name)

R3DStage(at, name, next) ==
    /\ pc = at
    /\ IF R3DGuard(name, mesh)
       THEN \/ /\ mesh' = R3DOutput(name, mesh)
               /\ stages' = Append(stages, [stage |-> name, ok |-> TRUE,
                                            before |-> mesh, after |-> mesh'])
               /\ pc' = next
            \/ /\ stages' = Append(stages, [stage |-> name, ok |-> FALSE,
                                            before |-> mesh, after |-> mesh])
               /\ pc' = "r3d_raised"
               /\ UNCHANGED mesh
       ELSE /\ pc' = next
            /\ UNCHANGED <<mesh, stages>>
    /\ UNCHANGED <<masks_3d, spacing, threshold, volume, ladder, geometry,
                   metrics, saves, export_paths, result>>
    /\ UNCHANGED <<metricVars, seriesVars, serviceVars>>

\* lines 68-69
R3DExtractLargest == R3DStage("r3d_largest", "extract_largest", "r3d_holes")

\* line 72
R3DFillHoles == R3DStage("r3d_holes", "fill_holes", "r3d_smooth")

\* line 75
R3DSmooth == R3DStage("r3d_smooth", "smooth", "r3d_decimate")

\* lines 78-79
R3DDecimate == R3DStage("r3d_decimate", "decimate", "r3d_return")

R3DInit ==
    /\ pc = "r3d_largest"
    /\ mesh \in PostMeshes
    /\ masks_3d = NoArray
    /\ spacing = <<1, 1, 1>>
    /\ threshold = DefaultThreshold
    /\ volume = NoArray
    /\ ladder = <<>>
    /\ stages = <<>>
    /\ geometry = NoGeometry
    /\ metrics = EmptyDict
    /\ saves = <<>>
    /\ export_paths = EmptyDict
    /\ result = NoResult
    /\ m_mesh = NoGeometry
    /\ m_spacing = <<1, 1, 1>>
    /\ m_scale = [axis |-> 1, k |-> 1]
    /\ m_out = NoOutput
    /\ SeriesIdle
    /\ ServiceIdle

R3DNext == R3DExtractLargest \/ R3DFillHoles \/ R3DSmooth \/ R3DDecimate

R3DSpec == R3DInit /\ [][R3DNext]_vars

----------------------------------------------------------------------------
(* The series readers DICOMProcessor.read_dicom_series_bytes               *)
(* (dicom_processor.py) and ZIPProcessor.read_dicom_series                 *)
(* (zip_processor.py), and SegmentationService.segment_volume.             *)
(*                                                                         *)
(* A file is what pydicom.dcmread gives for it: whether pixel_array can be *)
(* read, the shape of the pixel array (Rows, Columns), and the position    *)
(* attributes of the data set; attrs is defined on exactly the attributes  *)
(* the data set has.  A slice of a volume is the record of where its       *)
(* pixels came from (src, the index of the file in the input list), its    *)
(* shape, and whether the pixels were resampled to another shape.          *)

\* largest number of files in a series
MaxSlices == 2

\* the side of the square the segmentation model works on
ModelSide == 512

\* values of the position attributes
Positions == {1, 2}

AttrNames == {"ImagePositionPatient", "SliceLocation", "InstanceNumber"}

\* (rows, columns) of the slices: not square, and the square of the model
SliceShapes == {<<1, 2>>, <<ModelSide, ModelSide>>}

\* the attributes A with the values v; ImagePositionPatient is (x, y, z)
Attrs(A, v) ==
    [a \in A |-> IF a = "ImagePositionPatient" THEN <<0, 0, v[a]>> ELSE v[a]]

DicomFiles ==
    {[pixel |-> "ok", shape |-> sh, attrs |-> Attrs(A, v)] :
        sh \in SliceShapes, A \in SUBSET AttrNames, v \in [AttrNames -> Positions]}
    \cup {[pixel |-> k, shape |-> <<0, 0>>, attrs |-> Attrs({}, <<>>)] :
             k \in {"missing", "unreadable"}}

\* the series given to a reader
Series == UNION {[1..n -> DicomFiles] : n \in 0..MaxSlices}

\* variant: a file without readable pixel data is kept
ReadableAlways(f) == TRUE

\* the file has a pixel_array and reading it does not raise; otherwise the
\* loop continues with the next file
Readable(f) == f.pixel = "ok"

\* the pixel array of the file at index i of the input list
Pixels(f, i) == [src |-> i, shape |-> f.shape, resized |-> FALSE]

\* dicom_processor.py lines 171-177; i is the index given by enumerate
BytesPosition(f, i) ==
    IF "ImagePositionPatient" \in DOMAIN f.attrs
    THEN f.attrs["ImagePositionPatient"][3]
    ELSE IF "SliceLocation" \in DOMAIN f.attrs
         THEN f.attrs["SliceLocation"]
         ELSE IF "InstanceNumber" \in DOMAIN f.attrs
              THEN f.attrs["InstanceNumber"]
              ELSE i

\* dicom_processor.py lines 100-183: the list slices after the first n files
RECURSIVE BytesSlices(_, _)
BytesSlices(files, n) ==
    IF n = 0 THEN <<>>
    ELSE LET f == files[n]
         IN  IF Readable(f)
             THEN Append(BytesSlices(files, n - 1),
                         [pixel_array |-> Pixels(f, n - 1),
                          position |-> BytesPosition(f, n - 1),
                          index |-> n - 1])
             ELSE BytesSlices(files, n - 1)

\* getattr(dicom, name, default)
GetAttr(f, name, default) ==
    IF name \in DOMAIN f.attrs THEN f.attrs[name] ELSE default

\* getattr(dicom, name, 0)
GetAttr0(f, name) == GetAttr(f, name, 0)

\* zip_processor.py lines 65-98: the list slices_data after the first n files
RECURSIVE ZipSlices(_, _)
ZipSlices(files, n) ==
    IF n = 0 THEN <<>>
    ELSE LET f == files[n]
         IN  IF Readable(f)
             THEN Append(ZipSlices(files, n - 1),
                         [pixel_array |-> Pixels(f, n - 1),
                          slice_location |-> GetAttr0(f, "SliceLocation"),
                          instance_number |-> GetAttr0(f, "InstanceNumber"),
                          rows |-> f.shape[1],
                          columns |-> f.shape[2],
                          pixel_spacing |-> GetAttr(f, "PixelSpacing", <<1, 1>>),
                          slice_thickness |-> GetAttr(f, "SliceThickness", 3),
                          file_path |-> n - 1])
             ELSE ZipSlices(files, n - 1)

\* variant: an element goes before the elements with an equal key
InsertBeforeEqual(sorted, e, key) ==
    LET c == Cardinality({j \in DOMAIN sorted : sorted[j][key] < e[key]})
    IN  SubSeq(sorted, 1, c) \o <<e>> \o SubSeq(sorted, c + 1, Len(sorted))

\* e placed into the sorted list, after the elements whose key is not larger
Insert(sorted, e, key) ==
    LET c == Cardinality({j \in DOMAIN sorted : sorted[j][key] <= e[key]})
    IN  SubSeq(sorted, 1, c) \o <<e>> \o SubSeq(sorted, c + 1, Len(sorted))

\* sorted(seq, key=...) and list.sort(key=...): ascending and stable
RECURSIVE Sorted(_, _)
Sorted(seq, key) ==
    IF seq = <<>> THEN <<>>
    ELSE Insert(Sorted(SubSeq(seq, 1, Len(seq) - 1), key), seq[Len(seq)], key)

\* np.stack raises unless all the arrays have one shape
SameShapes(slices) ==
    \A i, j \in DOMAIN slices :
        slices[i].pixel_array.shape = slices[j].pixel_array.shape

\* the volume made of the pixel arrays px, all of the shape hw
Stacked(px, hw) == [shape |-> <<Len(px)>> \o hw, slices |-> px]

\* DICOMProcessor.read_dicom_series_bytes; raises: sorted or np.stack raises
ReadDicomSeriesBytes(files, raises) ==
    LET slices        == BytesSlices(files, Len(files))
        slices_sorted == Sorted(slices, "position")
    IN  IF slices = <<>> THEN Failure("no images")
        ELSE IF raises \/ ~SameShapes(slices) THEN Failure("volume")
        ELSE LET volume_ == Stacked([i \in DOMAIN slices_sorted |->
                                       slices_sorted[i].pixel_array],
                                    slices_sorted[1].pixel_array.shape)
             IN  [kind |-> "result", success |-> TRUE, volume |-> volume_,
                  volume_shape |-> volume_.shape, num_slices |-> Len(slices)]

\* zip_processor.py lines 119-121: skimage.transform.resize to target_shape
Resize(px, target_shape) ==
    IF px.shape # target_shape
    THEN [px EXCEPT !.shape = target_shape, !.resized = TRUE]
    ELSE px

Abs(x) == IF x < 0 THEN -x ELSE x

\* np.sum(np.abs(np.diff(locations)))
RECURSIVE SumAbsDiff(_)
SumAbsDiff(locations) ==
    IF Len(locations) < 2 THEN 0
    ELSE Abs(locations[2] - locations[1]) + SumAbsDiff(Tail(locations))

\* zip_processor.py lines 131-144: the spacing (x, y, z), in units of
\* 1/Scale mm, of the sorted list slices_data
ZipSpacing(slices_data) ==
    LET first_slice     == slices_data[1]
        slice_locations == [i \in DOMAIN slices_data |->
                               slices_data[i].slice_location]
        avg_slice_spacing ==
            IF Len(slices_data) > 1
            THEN (SumAbsDiff(slice_locations) * Scale) \div (Len(slices_data) - 1)
            ELSE first_slice.slice_thickness * Scale
    IN  <<first_slice.pixel_spacing[1] * Scale,
          first_slice.pixel_spacing[2] * Scale,
          avg_slice_spacing>>

\* ZIPProcessor.read_dicom_series; raises: a statement after line 101 raises
ReadDicomSeries(files, raises) ==
    LET slices_data  == ZipSlices(files, Len(files))
        sorted_      == Sorted(slices_data, "slice_location")
    IN  IF slices_data = <<>> THEN Failure("no valid files")
        ELSE IF raises THEN Failure("series")
        ELSE LET target_shape == <<sorted_[1].rows, sorted_[1].columns>>
                 volume_ == Stacked([i \in DOMAIN sorted_ |->
                                       Resize(sorted_[i].pixel_array, target_shape)],
                                    target_shape)
             IN  [kind |-> "result", success |-> TRUE, volume |-> volume_,
                  spacing |-> ZipSpacing(sorted_),
                  volume_shape |-> volume_.shape,
                  num_slices |-> Len(slices_data),
                  slice_info |-> [i \in DOMAIN sorted_ |->
                      [slice_location |-> sorted_[i].slice_location,
                       instance_number |-> sorted_[i].instance_number]]]

\* model_utils.py lines 85-86: cv2.resize(mask, original_shape) takes its
\* size as (width, height) and is given (rows, columns)
MaskShape(shape) ==
    IF shape = <<ModelSide, ModelSide>> THEN shape ELSE <<shape[2], shape[1]>>

\* LiverSegmentationModel.predict_slice on a slice of the volume
PredictSlice(px) == [of |-> px.src, shape |-> MaskShape(px.shape)]

\* SegmentationService.segment_volume; fails: the slices (from 1) on which
\* predict_slice raises
SegmentVolume(volume_3d, fails) ==
    IF fails # {} THEN Failure("segmentation")
    ELSE LET num_slices == volume_3d.shape[1]
             masks == [i \in 1..num_slices |-> PredictSlice(volume_3d.slices[i])]
             masks_3d_ == Stacked(masks, masks[1].shape)
         IN  [kind |-> "result", success |-> TRUE, masks_3d |-> masks_3d_,
              metrics |-> [total_slices |-> num_slices,
                           volume_shape |-> masks_3d_.shape]]

\* a reader was called: what it collected and what it returned
Read(reader, raises, slices, res) ==
    [kind |-> "read", reader |-> reader, raised |-> raises,
     slices |-> slices, result |-> res]

SeriesInit ==
    /\ PipeInit
    /\ MetricsIdle
    /\ ServiceIdle
    /\ s_files \in Series
    /\ s_read = NoResult
    /\ s_seg = NoResult
    /\ n_slice = <<>>
    /\ n_out = NoNorm

\* api/segmentation.py line 92
ReadSeriesBytes ==
    /\ s_read = NoResult
    /\ \E raises \in BOOLEAN :
          LET slices == BytesSlices(s_files, Len(s_files))
          IN  /\ raises => slices # <<>>
              /\ s_read' = Read("bytes", raises, slices,
                                ReadDicomSeriesBytes(s_files, raises))
    /\ UNCHANGED <<s_files, s_seg, n_slice, n_out>>
    /\ UNCHANGED <<pipeVars, metricVars, serviceVars>>

\* api/zip_upload.py line 55
ReadSeriesZip ==
    /\ s_read = NoResult
    /\ \E raises \in BOOLEAN :
          LET slices_data == ZipSlices(s_files, Len(s_files))
          IN  /\ raises => slices_data # <<>>
              /\ s_read' = Read("zip", raises, slices_data,
                                ReadDicomSeries(s_files, raises))
    /\ UNCHANGED <<s_files, s_seg, n_slice, n_out>>
    /\ UNCHANGED <<pipeVars, metricVars, serviceVars>>

\* api/zip_upload.py lines 57-70: the volume read is segmented
Segment ==
    /\ s_read # NoResult
    /\ s_read.result.success
    /\ s_seg = NoResult
    /\ \E fails \in SUBSET (1..s_read.result.volume.shape[1]) :
          s_seg' = [kind |-> "seg", fails |-> fails,
                    result |-> SegmentVolume(s_read.result.volume, fails)]
    /\ UNCHANGED <<s_files, s_read, n_slice, n_out>>
    /\ UNCHANGED <<pipeVars, metricVars, serviceVars>>

SeriesNext == ReadSeriesBytes \/ ReadSeriesZip \/ Segment

SeriesSpec == SeriesInit /\ [][SeriesNext]_vars

----------------------------------------------------------------------------
(* One ReconstructionService instance and its callers.                     *)
(*                                                                         *)
(* reconstruction_service is a module-level object (line 328) that every   *)
(* caller uses; it holds no lock, and its only state is temp_dir.  A       *)
(* caller's steps are the library calls of one reconstruct_from_masks      *)
(* call (the two mesh.save calls of _export_mesh), the return, and the     *)
(* read of the STL file through the returned path (api/zip_upload.py lines *)
(* 86-91, api/reconstruction.py lines 102-107).  The steps of different    *)
(* callers interleave.  cleanup_temp_files may be called at any time.      *)
(* The mesh a call extracted is known by the caller and the call number.   *)

Clients == {1, 2}

\* largest number of calls one caller makes
MaxCalls == 2

\* the mesh extracted by call k of caller r
Artifact(r, k) == [by |-> r, call |-> k]

NoFile == Artifact(0, 0)

IdleClient ==
    [pc |-> "idle", calls |-> 0, mesh |-> NoFile, paths |-> EmptyDict,
     result |-> NoResult, read |-> NoFile]

\* variant: the file name depends on the mesh saved
ArtifactPathPerMesh(m, format) == <<PathOf(format), m.by, m.call>>

\* lines 300 and 305: the path _export_mesh saves the mesh m to
ArtifactPath(m, format) == PathOf(format)

\* os.path.exists(path), and the content of the file
FileExists(dir, path) == dir.exists /\ \E f \in dir.files : f.path = path

FileAt(dir, path) ==
    IF FileExists(dir, path)
    THEN (CHOOSE f \in dir.files : f.path = path).content
    ELSE NoFile

\* the directory after m was written to path, replacing what was there
Written(dir, path, m) ==
    [dir EXCEPT !.files = {f \in @ : f.path # path}
                             \cup {[path |-> path, content |-> m]}]

\* variant: a save into a missing directory creates the directory again
SaveOutcomesMkdir(dir, path, m) ==
    IF dir.exists
    THEN {[dir |-> Written(dir, path, m), ok |-> TRUE], [dir |-> dir, ok |-> FALSE]}
    ELSE {[dir |-> Written([dir EXCEPT !.exists = TRUE, !.created = @ + 1],
                           path, m),
           ok |-> TRUE]}

\* mesh.save(path): the directory afterwards, and whether the call returned
\* (ok) or raised.  The mesh library is not part of the repository: a save
\* into a missing directory writes nothing, and either raises or returns.
SaveOutcomes(dir, path, m) ==
    IF dir.exists
    THEN {[dir |-> Written(dir, path, m), ok |-> TRUE], [dir |-> dir, ok |-> FALSE]}
    ELSE {[dir |-> dir, ok |-> TRUE], [dir |-> dir, ok |-> FALSE]}

\* shutil.rmtree(self.temp_dir)
Removed(dir) == [dir EXCEPT !.exists = FALSE, !.files = NoFiles]

ServiceInit ==
    /\ PipeInit
    /\ MetricsIdle
    /\ SeriesIdle
    /\ temp_dir = NewTempDir
    /\ clients = [r \in Clients |-> IdleClient]
    /\ upload = IdleUpload(1)
    /\ tmp_dirs = {}

\* reconstruct_from_masks is called; it fails before the export (lines
\* 146-148) or reaches _export_mesh with a mesh
Call(r) ==
    /\ clients[r].pc = "idle"
    /\ clients[r].calls < MaxCalls
    /\ \/ clients' = [clients EXCEPT
                        ![r] = [IdleClient EXCEPT
                                  !.calls = clients[r].calls + 1,
                                  !.result = Failure("reconstruction")]]
       \/ clients' = [clients EXCEPT
                        ![r] = [IdleClient EXCEPT
                                  !.pc = "stl",
                                  !.calls = clients[r].calls + 1,
                                  !.mesh = Artifact(r, clients[r].calls + 1)]]
    /\ UNCHANGED temp_dir
    /\ UNCHANGED <<upload, tmp_dirs>>
    /\ UNCHANGED <<pipeVars, metricVars, seriesVars>>

\* one mesh.save of _export_mesh: when it raises, the method returns {}
SaveFormat(r, at, format, next) ==
    /\ clients[r].pc = at
    /\ \E o \in SaveOutcomes(temp_dir, ArtifactPath(clients[r].mesh, format),
                             clients[r].mesh) :
          /\ temp_dir' = o.dir
          /\ clients' = [clients EXCEPT
                ![r].pc = IF o.ok THEN next ELSE "return",
                ![r].paths =
                    IF o.ok
                    THEN (format :> ArtifactPath(clients[r].mesh, format)) @@ @
                    ELSE EmptyDict]
    /\ UNCHANGED <<upload, tmp_dirs>>
    /\ UNCHANGED <<pipeVars, metricVars, seriesVars>>

\* lines 300-302
SaveStl(r) == SaveFormat(r, "stl", "stl", "ply")

\* lines 305-307
SavePly(r) == SaveFormat(r, "ply", "ply", "return")

\* lines 135-144
Return(r) ==
    /\ clients[r].pc = "return"
    /\ clients' = [clients EXCEPT
          ![r].pc = "read",
          ![r].result = [kind |-> "result", success |-> TRUE,
                         export_paths |-> clients[r].paths]]
    /\ UNCHANGED temp_dir
    /\ UNCHANGED <<upload, tmp_dirs>>
    /\ UNCHANGED <<pipeVars, metricVars, seriesVars>>

\* api/zip_upload.py lines 86-94: the caller reads the STL file back
ReadBack(r) ==
    /\ clients[r].pc = "read"
    /\ LET paths == clients[r].result.export_paths
       IN  clients' = [clients EXCEPT
              ![r].pc = "idle",
              ![r].read = IF "stl" \in DOMAIN paths
                          THEN FileAt(temp_dir, paths["stl"])
                          ELSE NoFile]
    /\ UNCHANGED temp_dir
    /\ UNCHANGED <<upload, tmp_dirs>>
    /\ UNCHANGED <<pipeVars, metricVars, seriesVars>>

\* cleanup_temp_files (lines 316-324): rmtree removes the directory, or
\* raises and the directory stays
CleanupTempFiles ==
    /\ temp_dir.exists
    /\ \/ temp_dir' = Removed(temp_dir)
       \/ temp_dir' = temp_dir
    /\ UNCHANGED clients
    /\ UNCHANGED <<upload, tmp_dirs>>
    /\ UNCHANGED <<pipeVars, metricVars, seriesVars>>

ServiceNext ==
    \/ \E r \in Clients : Call(r)
    \/ \E r \in Clients : SaveStl(r)
    \/ \E r \in Clients : SavePly(r)
    \/ \E r \in Clients : Return(r)
    \/ \E r \in Clients : ReadBack(r)
    \/ CleanupTempFiles

ServiceSpec == ServiceInit /\ [][ServiceNext]_vars

----------------------------------------------------------------------------
(* Slice normalisation without a window: DICOMProcessor.normalize_dicom_image, *)
(* the else branch of read_dicom_series_bytes (dicom_processor.py) and the  *)
(* per-slice normalisation of ZIPProcessor.read_dicom_series.  A slice is   *)
(* the sequence of its pixel values after astype(np.float32) and rescale.   *)
(* The first two paths return uint8 values; the third returns float32      *)
(* values, kept in units of 1/Scale.  The pixel values are such that no    *)
(* product leaves the range of uint8.                                      *)

\* largest number of pixels of a slice
MaxPixels == 3

PixelValues == {0, 1}

Slices == UNION {[1..n -> PixelValues] : n \in 1..MaxPixels}

Min(S) == CHOOSE m \in S : \A x \in S : m <= x

\* (image - min) / (max - min) * top, truncated as astype does
Stretch(px, top) ==
    LET lo == Min(Range(px))
        hi == Max(Range(px))
    IN  [i \in DOMAIN px |-> ((px[i] - lo) * top) \div (hi - lo)]

\* normalize_dicom_image, lines 60-67
NormalizeDicomImage(px) ==
    IF Max(Range(px)) > Min(Range(px))
    THEN Stretch(px, GrayMax)
    ELSE [i \in DOMAIN px |-> 0]

\* read_dicom_series_bytes, lines 144-152
NormalizeNoWindow(px) ==
    IF Max(Range(px)) - Min(Range(px)) > 0
    THEN Stretch(px, GrayMax)
    ELSE [i \in DOMAIN px |-> px[i] * GrayMax]

\* read_dicom_series of the ZIP reader, lines 124-129
NormalizeZipSlice(px) ==
    IF Max(Range(px)) > Min(Range(px))
    THEN Stretch(px, Scale)
    ELSE [i \in DOMAIN px |-> px[i] * Scale]

NormInit ==
    /\ PipeInit
    /\ MetricsIdle
    /\ ServiceIdle
    /\ s_files = <<>>
    /\ s_read = NoResult
    /\ s_seg = NoResult
    /\ n_slice \in Slices
    /\ n_out = NoNorm

\* one path is applied to the slice
NormPath(path, out) ==
    /\ n_out[path] = <<>>
    /\ n_out' = [n_out EXCEPT ![path] = out]
    /\ UNCHANGED <<s_files, s_read, s_seg, n_slice>>
    /\ UNCHANGED <<pipeVars, metricVars, serviceVars>>

NormImage == NormPath("image", NormalizeDicomImage(n_slice))

NormBytes == NormPath("bytes", NormalizeNoWindow(n_slice))

NormZip == NormPath("zip", NormalizeZipSlice(n_slice))

NormNext == NormImage \/ NormBytes \/ NormZip

NormSpec == NormInit /\ [][NormNext]_vars

----------------------------------------------------------------------------
(* upload_zip_series (api/zip_upload.py) and ZIPProcessor.extract_zip.     *)
(*                                                                         *)
(* A request goes through the calls of the handler; each call returns, or  *)
(* ends the try block with an HTTPException (status 400 or 500) or another *)
(* exception (status 500).  The finally block runs on every exit.  The     *)
(* extraction directory of request n is named n.                           *)

\* largest number of requests handled
MaxUploads == 3

\* the try block is left with the given status
Leave(u, status) == [u EXCEPT !.pc = "finally", !.status = status]

\* lines 40-46: the extension check
UploadZip ==
    /\ upload.pc = "idle"
    /\ \/ upload' = Leave(upload, 400)
       \/ upload' = [upload EXCEPT !.pc = "extract"]
    /\ UNCHANGED <<temp_dir, clients, tmp_dirs>>
    /\ UNCHANGED <<pipeVars, metricVars, seriesVars>>

\* line 49, and extract_zip (zip_processor.py lines 22-54): mkdtemp raises;
\* or it makes the directory and a later statement raises, which extract_zip
\* raises again; or extract_zip returns the directory and the files found
ExtractZip ==
    /\ upload.pc = "extract"
    /\ \/ /\ upload' = Leave(upload, 500)
          /\ UNCHANGED tmp_dirs
       \/ /\ tmp_dirs' = tmp_dirs \cup {upload.n}
          /\ \/ upload' = Leave([upload EXCEPT !.made = upload.n], 500)
             \/ \E found \in BOOLEAN :
                   LET u == [upload EXCEPT !.made = upload.n,
                                           !.temp_dir = upload.n]
                   IN  upload' = IF found THEN [u EXCEPT !.pc = "read"]
                                 ELSE Leave(u, 400)
    /\ UNCHANGED <<temp_dir, clients>>
    /\ UNCHANGED <<pipeVars, metricVars, seriesVars>>

\* a call of the handler: it returns, or the try block is left with one of
\* the statuses
UploadStage(at, next, statuses) ==
    /\ upload.pc = at
    /\ \/ upload' = [upload EXCEPT !.pc = next]
       \/ \E status \in statuses : upload' = Leave(upload, status)
    /\ UNCHANGED <<temp_dir, clients, tmp_dirs>>
    /\ UNCHANGED <<pipeVars, metricVars, seriesVars>>

\* lines 55-58
UploadRead == UploadStage("read", "segment", {400})

\* lines 66-73
UploadSegment == UploadStage("segment", "reconstruct", {400, 500})

\* lines 78-83
UploadReconstruct == UploadStage("reconstruct", "respond", {400})

\* lines 86-118: the STL file is read back and the response returned
UploadRespond ==
    /\ upload.pc = "respond"
    /\ \/ upload' = Leave(upload, 200)
       \/ upload' = Leave(upload, 500)
    /\ UNCHANGED <<temp_dir, clients, tmp_dirs>>
    /\ UNCHANGED <<pipeVars, metricVars, seriesVars>>

\* lines 126-134: the finally block; rmtree removes the directory, or raises
\* and the directory stays
UploadFinally ==
    /\ upload.pc = "finally"
    /\ IF upload.temp_dir # 0 /\ upload.temp_dir \in tmp_dirs
       THEN \/ /\ tmp_dirs' = tmp_dirs \ {upload.temp_dir}
               /\ upload' = [upload EXCEPT !.pc = "finished",
                                           !.cleanup = "removed"]
            \/ /\ UNCHANGED tmp_dirs
               /\ upload' = [upload EXCEPT !.pc = "finished",
                                           !.cleanup = "failed"]
       ELSE /\ UNCHANGED tmp_dirs
            /\ upload' = [upload EXCEPT !.pc = "finished",
                                        !.cleanup = "skipped"]
    /\ UNCHANGED <<temp_dir, clients>>
    /\ UNCHANGED <<pipeVars, metricVars, seriesVars>>

\* the next request arrives
NextUpload ==
    /\ upload.pc = "finished"
    /\ upload.n < MaxUploads
    /\ upload' = IdleUpload(upload.n + 1)
    /\ UNCHANGED <<temp_dir, clients, tmp_dirs>>
    /\ UNCHANGED <<pipeVars, metricVars, seriesVars>>

UploadInit ==
    /\ PipeInit
    /\ MetricsIdle
    /\ SeriesIdle
    /\ ServiceIdle

UploadNext ==
    \/ UploadZip
    \/ ExtractZip
    \/ UploadRead
    \/ UploadSegment
    \/ UploadReconstruct
    \/ UploadRespond
    \/ UploadFinally
    \/ NextUpload

UploadSpec == UploadInit /\ [][UploadNext]_vars

----------------------------------------------------------------------------
(* Properties *)

Done == pc = "done" /\ result.kind = "result"

\* the request was made with the default threshold, as every caller does
DefaultCall == threshold = DefaultThreshold

LadderOrder == <<"primary", "low", "adaptive", "cloud">>

NoLowOrder == <<"primary", "adaptive", "cloud">>

ContourSteps == {"primary", "low", "adaptive"}

Rank(name) ==
    CASE name = "primary"         -> 1
      [] name = "low"             -> 2
      [] name = "adaptive"        -> 3
      [] name = "extract_surface" -> 4
      [] name = "cloud"           -> 5

\* the scalar level a ladder step is to be run at
LevelOk(e) ==
    CASE e.step \in {"primary", "cloud"} -> e.level = threshold
      [] e.step = "low"                  -> e.level * 10 = 3 * Scale
      [] e.step = "adaptive"             ->
             e.level = Median(volume, NonzeroValues(volume))
      [] OTHER                           -> TRUE

NoRaise == \A i \in DOMAIN ladder : ~ladder[i].raised

\* C1 as stated: the ladder runs primary threshold -> 0.3 -> median of the
\* nonzero scalars -> point cloud, for every input no step is skipped, and a
\* step runs only when every earlier step yielded a mesh with zero vertices.
\* (Stated here for the requests in which no library call raises.)
C1_LadderAsStated ==
    NoRaise =>
        /\ Len(ladder) <= Len(LadderOrder)
        /\ \A i \in DOMAIN ladder :
              /\ ladder[i].step = LadderOrder[i]
              /\ LevelOk(ladder[i])
              /\ \A j \in 1..(i - 1) : ladder[j].n = 0

\* C1 (amended): the steps run in the order primary threshold -> 0.3 ->
\* median of the positive scalars -> point cloud of the voxels above the
\* primary threshold, each only when every earlier step yielded zero
\* vertices.  The 0.3 step runs only for a positive primary threshold.  When
\* a contour call raises, extract_surface takes the place of the remaining
\* threshold steps and only the point cloud may follow it.  With a positive
\* threshold and no call raising no step is skipped; with a threshold of
\* zero or less and no call raising only the 0.3 step is.
C1_Ladder ==
    /\ \A i \in DOMAIN ladder :
          /\ LevelOk(ladder[i])
          /\ \A j \in 1..(i - 1) :
                /\ Rank(ladder[j].step) < Rank(ladder[i].step)
                /\ ladder[j].n = 0
          /\ ladder[i].step = "low" => threshold > 0
          /\ ladder[i].step = "extract_surface" =>
                i > 1 /\ ladder[i - 1].raised /\ ladder[i - 1].step \in ContourSteps
          /\ (ladder[i].raised /\ ladder[i].step \in ContourSteps /\ i < Len(ladder)) =>
                ladder[i + 1].step = "extract_surface"
    /\ (NoRaise /\ threshold > 0) =>
          /\ Len(ladder) <= Len(LadderOrder)
          /\ \A i \in DOMAIN ladder : ladder[i].step = LadderOrder[i]
    /\ (NoRaise /\ threshold <= 0) =>
          /\ Len(ladder) <= Len(NoLowOrder)
          /\ \A i \in DOMAIN ladder : ladder[i].step = NoLowOrder[i]

\* C1 witness: all four steps ran, the first three without vertices, and the
\* point cloud produced the mesh
C1_Witness ==
    /\ pc = "postprocess"
    /\ NoRaise
    /\ Len(ladder) = 4
    /\ ladder[3].n = 0
    /\ ladder[4].step = "cloud"
    /\ ladder[4].n > 0

\* C2: a success result always reports a mesh with at least one vertex
\* (stated for the requests made with the default threshold in which no
\* library call raises).
C2_SuccessHasVertices ==
    (Done /\ DefaultCall /\ NoRaise /\ result.success) =>
        result.mesh_info.num_vertices >= 1

ZeroMask(a) == \A p \in DOMAIN a.data : a.data[p] = 0

\* C3: a mask volume that is 0 everywhere always gets a failure result
\* (stated for the requests made with the default threshold).
C3_ZeroMaskFails ==
    (Done /\ DefaultCall /\ ZeroMask(masks_3d)) => ~result.success

StageNames == <<"extract_largest", "fill_holes", "smooth", "decimate">>

\* the conditions under which a stage is to run
Due(name, m) ==
    CASE name = "extract_largest" -> m.n_cells > 1
      [] name = "fill_holes"      -> TRUE
      [] name = "smooth"          -> m.n_cells > 100
      [] name = "decimate"        -> m.n_cells > 50000

RECURSIVE StagesFollow(_, _, _)
\* the log from entry i on, and the final mesh, are what the stages from the
\* k-th on leave when the k-th is handed mesh m: every stage that is due
\* runs on the mesh its predecessor left, and a failed one hands on m itself
StagesFollow(k, i, m) ==
    IF k > Len(StageNames)
    THEN i = Len(stages) + 1 /\ mesh = m
    ELSE IF Due(StageNames[k], m)
    THEN /\ i <= Len(stages)
         /\ stages[i].stage = StageNames[k]
         /\ stages[i].before = m
         /\ ~stages[i].ok => stages[i].after = m
         /\ StagesFollow(k + 1, i + 1, stages[i].after)
    ELSE StagesFollow(k + 1, i, m)

\* C4: in ReconstructionService._postprocess_mesh a stage that fails hands
\* the mesh it was given to the next stage, the remaining stages still run,
\* and reconstruct_from_masks still returns success.
C4_FailedStageKeepsMesh ==
    /\ \A i \in DOMAIN stages :
          /\ ~stages[i].ok => stages[i].after = stages[i].before
          /\ i < Len(stages) => stages[i + 1].before = stages[i].after
    /\ (pc \in {"metrics", "export", "done"} /\ stages # <<>>) =>
          StagesFollow(1, 1, stages[1].before)
    /\ (pc = "done" /\ stages # <<>>) =>
          /\ result.success
          /\ result.mesh_info.num_faces = mesh.n_cells

\* C4 witness: the first stage failed, the three stages after it ran on the
\* mesh it was given, and the request succeeded
C4_Witness ==
    /\ Done
    /\ result.success
    /\ Len(stages) = 4
    /\ ~stages[1].ok
    /\ stages[2].before = stages[1].before
    /\ stages[4].ok

\* C5: no post-processing stage is executed on a mesh with zero vertices.
C5_NoStageOnEmptyMesh ==
    \A i \in DOMAIN stages : stages[i].before.n_points > 0

\* C6: a successful decimation leaves at most the ceiling of faces.
C6_DecimationReachesCeiling ==
    (DefaultCall /\ NoRaise) =>
        \A i \in DOMAIN stages :
            (stages[i].stage = "decimate" /\ stages[i].ok) =>
                /\ stages[i].before.n_cells > DecimateCeiling
                /\ stages[i].after.n_cells <= DecimateCeiling

\* the volume in mL computed from the mesh volume and the spacing
ComputedMl(g, sp) == (g.volume * sp[1] * sp[2] * sp[3]) \div 1000

ScaledSpacing == ScaleAxis(m_spacing, m_scale.axis, m_scale.k)

C8_Plausibility ==
    (pc \in {"export", "done"} /\ geometry.n_points > 0 /\ ~geometry.raises) =>
        LET computed == geometry.volume * spacing[1] * spacing[2] * spacing[3]
            ml       == ComputedMl(geometry, spacing)
        IN  /\ (ml > 5000 /\ ml <= 10000) =>
                  /\ metrics.volume_mm3 = computed
                  /\ metrics.volume_ml = ml
            /\ ml > 10000 =>
                  /\ metrics.volume_mm3 = geometry.volume
                  /\ metrics.volume_ml * 1000 = geometry.volume
            /\ (pc = "done" /\ ml > 5000) =>
                  /\ result.success
                  /\ result.metrics = metrics

\* C8 witness: a request that succeeded with a volume recomputed once and
\* still above 10000 mL
C8_Witness ==
    /\ Done
    /\ result.success
    /\ geometry.n_points > 0
    /\ ~geometry.raises
    /\ ComputedMl(geometry, spacing) > 10000
    /\ geometry.volume * spacing[1] * spacing[2] * spacing[3] # geometry.volume
    /\ result.metrics.volume_mm3 = geometry.volume
    /\ result.metrics.volume_ml > 10000

MetricKeys ==
    {"volume_ml", "volume_mm3", "surface_area_cm2", "surface_area_mm2",
     "center_of_mass", "spacing_x", "spacing_y", "spacing_z", "bounding_box"}

\* every metric zero, the bounding box [0,0] on each axis, the spacing echoed
ZeroMetrics(mt, sp) ==
    /\ DOMAIN mt = MetricKeys
    /\ mt.volume_ml = 0 /\ mt.volume_mm3 = 0
    /\ mt.surface_area_cm2 = 0 /\ mt.surface_area_mm2 = 0
    /\ mt.center_of_mass = <<0, 0, 0>>
    /\ DOMAIN mt.bounding_box = {"x", "y", "z"}
    /\ \A ax \in {"x", "y", "z"} : mt.bounding_box[ax] = <<0, 0>>
    /\ <<mt.spacing_x, mt.spacing_y, mt.spacing_z>> = sp

\* C9: for a zero-vertex mesh the metrics calculators of ReconstructionService
\* and SimpleReconstructionService return all-zero metrics with the spacing
\* echoed.
C9_ZeroVertexMetrics ==
    m_mesh.n_points = 0 =>
        /\ "recon" \in m_out.calls => ZeroMetrics(m_out.recon, m_spacing)
        /\ "simple" \in m_out.calls => ZeroMetrics(m_out.simple, m_spacing)

\* C9 witness: both calculators were given a zero-vertex mesh
C9_Witness ==
    /\ m_mesh.n_points = 0
    /\ m_out.calls = {"recon", "simple"}
    /\ m_spacing # <<1, 1, 1>>

\* C10: when the save of one format fails, the returned export map holds
\* the location of every format that was written, and the request succeeds.
C10_PartialExportMap ==
    (Done /\ DefaultCall /\ NoRaise /\ \E i \in DOMAIN saves : ~saves[i].ok) =>
        /\ result.success
        /\ \A i \in DOMAIN saves :
              saves[i].ok =>
                  /\ saves[i].format \in DOMAIN result.export_paths
                  /\ result.export_paths[saves[i].format] = PathOf(saves[i].format)

\* C11 as stated: when no requested format was written the reconstruction
\* is reported as failed.
C11_FailedWhenNothingExported ==
    (Done /\ DefaultCall /\ NoRaise /\ saves # <<>>
          /\ \A i \in DOMAIN saves : ~saves[i].ok) =>
        ~result.success

\* the files of the series with readable pixel data (indices from 1)
ValidFiles == {i \in DOMAIN s_files : s_files[i].pixel = "ok"}

\* the position a reader gave to the collected slice e
EntryPosition(e) ==
    IF s_read.reader = "bytes" THEN e.position ELSE e.slice_location

\* the stated precedence, for the file f at index i of the input
Precedence(f, i) ==
    CASE "ImagePositionPatient" \in DOMAIN f.attrs ->
             f.attrs["ImagePositionPatient"][3]
      [] "ImagePositionPatient" \notin DOMAIN f.attrs
         /\ "SliceLocation" \in DOMAIN f.attrs -> f.attrs["SliceLocation"]
      [] {"ImagePositionPatient", "SliceLocation"} \cap DOMAIN f.attrs = {}
         /\ "InstanceNumber" \in DOMAIN f.attrs -> f.attrs["InstanceNumber"]
      [] DOMAIN f.attrs = {} -> i

\* C14 as stated: in both readers the position of every slice is the depth
\* component of the 3-axis position, else the slice location, else the
\* instance number, else the original index.
C14_PositionPrecedence ==
    s_read # NoResult =>
        \A k \in DOMAIN s_read.slices :
            LET e == s_read.slices[k]
            IN  EntryPosition(e) =
                    Precedence(s_files[e.pixel_array.src + 1], e.pixel_array.src)

\* the position the reader gave to the slice read from file src
PositionOf(src) ==
    LET k == CHOOSE k \in DOMAIN s_read.slices :
                 s_read.slices[k].pixel_array.src = src
    IN  EntryPosition(s_read.slices[k])

C16_SortFailsClosed ==
    (s_read # NoResult /\ s_read.raised) =>
        /\ s_read.result.success
        /\ \A i, j \in DOMAIN s_read.result.volume.slices :
              i < j => s_read.result.volume.slices[i].src
                          < s_read.result.volume.slices[j].src

\* every file of the series is valid and all have one height x width
UniformSeries ==
    /\ s_files # <<>>
    /\ ValidFiles = DOMAIN s_files
    /\ \A i, j \in DOMAIN s_files : s_files[i].shape = s_files[j].shape

\* C17 as stated: for N valid slices of one height x width the volume has
\* shape (N, height, width) and the mask volume has the same shape, mask i
\* being the segmentation of slice i.
C17_MaskShape ==
    (UniformSeries /\ s_seg # NoResult /\ s_seg.result.success) =>
        LET vol   == s_read.result.volume
            masks == s_seg.result.masks_3d
        IN  /\ vol.shape = <<Len(s_files)>> \o s_files[1].shape
            /\ masks.shape = vol.shape
            /\ \A i \in DOMAIN vol.slices : masks.slices[i].of = vol.slices[i].src

\* C18 as stated: a series whose slices differ in height or width is
\* rejected and no volume is produced.
C18_MismatchRejected ==
    (s_read # NoResult /\ ~s_read.raised /\ ~SameShapes(s_read.slices)) =>
        ~s_read.result.success

\* C19 as stated: when segmentation fails for some slices but not for all,
\* the result is a success with a full-depth mask volume.
C19_SliceFailureIsolated ==
    (s_seg # NoResult /\ s_seg.fails # {}
        /\ s_seg.fails # 1..s_read.result.volume.shape[1]) =>
        /\ s_seg.result.success
        /\ s_seg.result.masks_3d.shape[1] = s_read.result.volume.shape[1]

\* C20 as stated: a read fails only when no valid slice remains.
C20_FailsOnlyWhenEmpty ==
    (s_read # NoResult /\ ~s_read.raised) =>
        (s_read.result.success <=> ValidFiles # {})

\* the valid slices can be assembled: nothing raised, and for
\* read_dicom_series_bytes, which stacks them as they are, they have one shape
Assembled ==
    /\ ~s_read.raised
    /\ s_read.reader = "bytes" => SameShapes(s_read.slices)

\* C20 (amended): files without readable pixel data are dropped; with no
\* valid slice the read fails; with at least one, the read succeeds with a
\* volume of the valid slices (depth = their number) whenever they can be
\* assembled, and fails otherwise.
C20_DroppedSlices ==
    s_read # NoResult =>
        /\ ValidFiles = {} => ~s_read.result.success
        /\ (ValidFiles # {} /\ Assembled) =>
              /\ s_read.result.success
              /\ s_read.result.volume.shape[1] = Cardinality(ValidFiles)
              /\ {s_read.result.volume.slices[i].src :
                     i \in DOMAIN s_read.result.volume.slices}
                   = {i - 1 : i \in ValidFiles}
        /\ (ValidFiles # {} /\ ~Assembled) => ~s_read.result.success

\* C20 witness: a file of the series was dropped and the others formed the
\* volume
C20_Witness ==
    /\ s_read # NoResult
    /\ s_read.result.success
    /\ ValidFiles # DOMAIN s_files
    /\ s_read.result.volume.shape[1] = Cardinality(ValidFiles)
    /\ s_read.result.volume.shape[1] >= 1

\* the caller holds the paths of a successful call that exported the STL
HoldsStl(r) ==
    /\ clients[r].result # NoResult
    /\ clients[r].result.success
    /\ "stl" \in DOMAIN clients[r].result.export_paths

C13_DirectoryLifetime ==
    [][/\ temp_dir'.created = 1
       /\ temp_dir'.exists # temp_dir.exists =>
             (temp_dir.exists /\ CleanupTempFiles)
       /\ \A f \in temp_dir.files :
             FileExists(temp_dir', f.path) \/ CleanupTempFiles]_vars

\* C13 witness: a call returned, its artifact was read back afterwards, and
\* a later cleanup removed the directory
C13_Witness ==
    /\ ~temp_dir.exists
    /\ temp_dir.created = 1
    /\ \E r \in DOMAIN clients :
          /\ HoldsStl(r)
          /\ clients[r].pc = "idle"
          /\ clients[r].read = clients[r].mesh

\* the positions of a call in program order
PcOrder ==
    <<"idle", "primary", "low", "adaptive", "except", "surface", "postprocess",
      "largest", "holes", "smooth", "decimate", "metrics", "export", "done">>

PcRank(p) == CHOOSE i \in DOMAIN PcOrder : PcOrder[i] = p

\* the entries of the ladder log made by the step called name
Attempts(name) == {i \in DOMAIN ladder : ladder[i].step = name}

\* a step of a call that has been accepted and has not returned
CallStep ==
    \/ ContourPrimary \/ ContourLow \/ ContourAdaptive \/ ExtractSurface
    \/ PointCloud \/ SurfaceFound \/ Postprocess \/ ExtractLargest
    \/ FillHoles \/ Smooth \/ DecimateStage \/ Metrics \/ Export

C24_FailuresAbort ==
    (Done /\ DefaultCall) =>
        /\ IF result.success
           THEN DOMAIN result
                    = {"kind", "success", "mesh_info", "metrics", "export_paths"}
           ELSE /\ DOMAIN result = {"kind", "success", "error"}
                /\ stages = <<>>
                /\ geometry = NoGeometry
                /\ metrics = EmptyDict
                /\ saves = <<>>
                /\ export_paths = EmptyDict
        /\ \A i \in DOMAIN ladder :
              ladder[i].raised => (~result.success /\ mesh.n_points = 0)

\* the index of a stage in the order of the method
StageIndex(name) == CHOOSE k \in DOMAIN StageNames : StageNames[k] = name

\* C26: the stages run at most once each, in the order largest component,
\* hole filling, smoothing, decimation; largest component only on a mesh of
\* more than one face, smoothing only above 100 faces, decimation only
\* above the ceiling, each guard taken on the mesh the preceding stages left.
C26_StagesInOrder ==
    /\ \A i, j \in DOMAIN stages :
          i < j => StageIndex(stages[i].stage) < StageIndex(stages[j].stage)
    /\ \A i \in DOMAIN stages :
          /\ Due(stages[i].stage, stages[i].before)
          /\ i > 1 => stages[i].before = stages[i - 1].after
    /\ (pc \in {"holes", "smooth", "decimate", "metrics"} /\ stages # <<>>) =>
          mesh = stages[Len(stages)].after

\* C26 witness: the four stages ran, each on the mesh the one before it left
C26_Witness ==
    /\ pc = "metrics"
    /\ Len(stages) = 4
    /\ \A i \in DOMAIN stages : stages[i].ok /\ stages[i].stage = StageNames[i]
    /\ stages[4].before.ops # stages[1].before.ops

\* the grid of the call has at least two points
WholeGrid == Len(masks_3d.shape) = 3 /\ Cardinality(DOMAIN masks_3d.data) >= 2

\* the contour calls of the ladder that raised
RaisedContours == {i \in DOMAIN ladder : ladder[i].step \in ContourSteps /\ ladder[i].raised}

UnitsKept(mt, g, sp) ==
    /\ mt.volume_ml * 1000 = mt.volume_mm3
    /\ mt.surface_area_cm2 * 100 = mt.surface_area_mm2
    /\ <<mt.spacing_x, mt.spacing_y, mt.spacing_z>> = sp
    /\ IF g.n_points = 0 \/ g.raises
       THEN /\ mt.volume_mm3 = 0
            /\ mt.surface_area_mm2 = 0
       ELSE /\ mt.surface_area_mm2 = g.area * sp[1] * sp[2]
            /\ mt.center_of_mass = g.center
            /\ mt.bounding_box = [x |-> <<g.bounds[1], g.bounds[2]>>,
                                  y |-> <<g.bounds[3], g.bounds[4]>>,
                                  z |-> <<g.bounds[5], g.bounds[6]>>]
            /\ mt.volume_mm3 =
                  IF ComputedMl(g, sp) > 10000
                  THEN g.volume
                  ELSE g.volume * sp[1] * sp[2] * sp[3]

\* C29: every record of _calculate_metrics has volume_ml = volume_mm3 / 1000
\* and surface_area_cm2 = surface_area_mm2 / 100, on the normal path, after
\* the plausibility correction, for a mesh without vertices and after an
\* exception; the correction changes the two volume fields only.
C29_UnitConversions ==
    "recon" \in m_out.calls =>
        /\ UnitsKept(m_out.recon, m_mesh, m_spacing)
        /\ UnitsKept(m_out.scaled, m_mesh, ScaledSpacing)

\* C29 witness: the correction replaced the volume of a record whose
\* spacing is not the unit spacing, and the area is the one computed
C29_Witness ==
    /\ "recon" \in m_out.calls
    /\ m_mesh.n_points > 0
    /\ ~m_mesh.raises
    /\ m_spacing # <<1, 1, 1>>
    /\ ComputedMl(m_mesh, m_spacing) > 10000
    /\ m_out.recon.volume_mm3 = m_mesh.volume
    /\ m_out.recon.volume_ml * 1000 = m_mesh.volume
    /\ m_out.recon.surface_area_mm2 = m_mesh.area * m_spacing[1] * m_spacing[2]

\* C25 as stated: the mask predict_slice returns for a slice has the shape
\* of that slice, whatever the shape is.
C25_MaskSameShape ==
    (s_seg # NoResult /\ s_seg.result.success) =>
        \A i \in DOMAIN s_read.result.volume.slices :
            s_seg.result.masks_3d.slices[i].shape
                = s_read.result.volume.slices[i].shape

\* the slice holds one value
ConstantSlice == \A i, j \in DOMAIN n_slice : n_slice[i] = n_slice[j]

\* C21 as stated: each of the three normalisation paths turns a constant
\* slice, whatever its value, into a grid of zeros.
C21_ConstantSliceIsZero ==
    ConstantSlice =>
        \A path \in {"image", "bytes", "zip"} :
            \A i \in DOMAIN n_out[path] : n_out[path][i] = 0

\* the stated position of slice i of the volume read
StatedPosition(i) ==
    LET src == s_read.result.volume.slices[i].src
    IN  Precedence(s_files[src + 1], src)

\* the stated depth spacing of the volume read, in units of 1/Scale mm
StatedDepthSpacing ==
    LET n == Len(s_read.result.volume.slices)
    IN  IF n < 2 THEN 3 * Scale
        ELSE (SumAbsDiff([i \in 1..n |-> StatedPosition(i)]) * Scale) \div (n - 1)

\* C22 as stated: the ZIP reader returns the spacing (x, y, z) with x and y
\* the in-plane pixel spacing and z the mean absolute difference of the
\* resolved positions of consecutive slices of the volume, or the declared
\* slice thickness when there are fewer than two slices.
C22_DepthSpacing ==
    (s_read # NoResult /\ s_read.reader = "zip" /\ s_read.result.success) =>
        /\ s_read.result.spacing[1] = Scale
        /\ s_read.result.spacing[2] = Scale
        /\ s_read.result.spacing[3] = StatedDepthSpacing

\* C30 as stated: when a request has finished, the directory extract_zip
\* made for it is gone, on every exit path, the failure of the extraction
\* itself included (a cleanup whose rmtree raised is left aside).
C30_TempDirRemoved ==
    (upload.pc = "finished" /\ upload.made # 0 /\ upload.cleanup # "failed") =>
        upload.made \notin tmp_dirs

====
